---------------------------- MODULE Spec2Model ----------------------------
(***************************************************************************)
(* Sneaker WTB tracker (streamlit_app.py): the payout formula, the live    *)
(* StockX lookup, the "Fetch from StockX + Add" handler, the backup        *)
(* restore handler, and the sales-history parser of the specification.     *)
(*                                                                         *)
(* Units.  Money is an integer number of pence (56.00 is 5600).  A value   *)
(* the code keeps unrounded (avg_net, est_days) is an exact fraction       *)
(* [num, den].  Percentages rounded to one decimal are tenths of a percent.*)
(* Dates are whole days.                                                   *)
(*                                                                         *)
(* Python's round() works on binary floats: a decimal value that lies      *)
(* exactly half way between two results is stored slightly above or below  *)
(* the half, so it rounds up for some operands and down for others         *)
(* (calculate_net(0.50) = -8.02, calculate_net(1.50) = -7.04).  RoundSet   *)
(* therefore returns both neighbours at an exact tie, and every operator   *)
(* that rounds returns the set of results the code can produce.            *)
(***************************************************************************)
EXTENDS Integers, Sequences, FiniteSets, TLC

VARIABLES
    tables,     \* st.session_state.tables: platform -> sequence of rows
    msg,        \* the message the last handler showed (st.success/error/warning)
    last,       \* the last handler run: its inputs and its local variables
    price,      \* payout formula: the argument of calculate_net
    net,        \* payout formula: the value calculate_net returned
    lines,      \* parser: the non-empty trimmed lines of the pasted text
    idx,        \* parser: index of the line under the scan
    pstate,     \* parser: "seek_date", "seek_amount" or "done"
    pdate,      \* parser: the date waiting for its amount
    sales       \* parser: the in-window amounts retained so far

appVars == <<tables, msg, last>>
netVars == <<price, net>>
parseVars == <<lines, idx, pstate, pdate, sales>>
vars == <<tables, msg, last, price, net, lines, idx, pstate, pdate, sales>>

-----------------------------------------------------------------------------
(* Program constants *)

NetThreshold == 5700
WindowDays == 120
SalesListCap == 50
VelocityDays == 120
NoSalesDays == 999

(* Bounds of the model *)

MaxPence == 6000
MaxCount == 51
MaxRows == 2
MaxLines == 5
Now == 200

-----------------------------------------------------------------------------
(* Helpers *)

Range(s) == {s[k] : k \in 1..Len(s)}

RECURSIVE SumSeq(_)
SumSeq(s) == IF s = <<>> THEN 0 ELSE Head(s) + SumSeq(Tail(s))

SubSeqTo(s, k) == SubSeq(s, 1, IF Len(s) < k THEN Len(s) ELSE k)

\* round(num/den, digits) on the scaled integers, den > 0: the nearest
\* integer; both neighbours when num/den is exactly half way.
RoundSet(num, den) ==
    LET q == (2 * num + den) \div (2 * den)
    IN  IF (2 * num + den) % (2 * den) = 0 THEN {q - 1, q} ELSE {q}

-----------------------------------------------------------------------------
(* PAYOUT FORMULA *)

\* A variant of RawNet whose flat-fee tier includes the threshold
\* (price <= 57).
RawNetInclusive(p) ==
    IF p <= NetThreshold
    THEN 100 * p - 45000 - 3 * p - 40000
    ELSE 100 * p - 8 * p - 3 * p - 40000

\* The unrounded payout in hundredths of a penny.
RawNet(p) ==
    IF p < NetThreshold
    THEN 100 * p - 45000 - 3 * p - 40000
    ELSE 100 * p - 8 * p - 3 * p - 40000

calculate_net(p) == RoundSet(RawNet(p), 100)

-----------------------------------------------------------------------------
(* FETCH FROM STOCKX *)

\* What fetch_stockx_data returns when it gives up.
None == [ok |-> FALSE]

\* A lookup's three HTTP exchanges, as the environment answers them:
\*   search_status, products (number of search hits), market_status,
\*   sales_status, raises (the step at which requests/json raises, or
\*   "none"), data (the "data" list of the activity response).
\* A sale item of that list:
\*   createdAt [kind, day]: "absent" (None or ""), "malformed" (not ISO),
\*       "naive" (no UTC offset), "aware" (trailing Z or an offset);
\*   size: the item's size label;
\*   amount [kind, v]: "num" (a number, pence) or "text" (not a number).

UkLabel(uk_size) == "UK " \o uk_size

\* One turn of the loop over sales_data: TRUE iff the amount is appended.
\* fromisoformat raises on a malformed string; comparing an offset-aware
\* sale_date with the naive cutoff raises TypeError; float() raises on
\* text: each exception lands in the loop's except clause, which skips
\* the item.
SaleKept(item, uk_size) ==
    CASE item.createdAt.kind = "absent" -> FALSE
      [] item.createdAt.kind = "malformed" -> FALSE
      [] item.createdAt.kind = "aware" -> FALSE
      [] OTHER ->
            IF item.createdAt.day >= Now - WindowDays
               /\ item.size = UkLabel(uk_size)
            THEN IF item.amount.kind = "text"
                 THEN FALSE
                 ELSE item.amount.v > 0
            ELSE FALSE

RECURSIVE SalesIn(_, _)
SalesIn(items, uk_size) ==
    IF items = <<>> THEN <<>>
    ELSE IF SaleKept(Head(items), uk_size)
         THEN <<Head(items).amount.v>> \o SalesIn(Tail(items), uk_size)
         ELSE SalesIn(Tail(items), uk_size)

\* The dictionary built at the end of fetch_stockx_data.  The columns
\* copied unchanged from the responses (name, colorway, highest_bid,
\* lowest_ask, num_asks) take no part in any computation and are left out.
FetchResult(found) ==
    { [ok |-> TRUE,
       sales_120d |-> Len(found),
       avg_sale |-> a,
       sales_list |-> SubSeqTo(found, SalesListCap)]
      : a \in IF found # <<>> THEN RoundSet(SumSeq(found), Len(found)) ELSE {0} }

\* A variant of fetch_stockx_data that does not test the market response's
\* status code.
fetch_unchecked_market(resp, uk_size) ==
    IF resp.raises = "search" THEN {None}
    ELSE IF resp.search_status # 200 THEN {None}
    ELSE IF resp.products = 0 THEN {None}
    ELSE IF resp.raises = "market" THEN {None}
    ELSE IF resp.raises = "sales" THEN {None}
    ELSE IF resp.sales_status # 200 THEN {None}
    ELSE FetchResult(SalesIn(resp.data, uk_size))

\* The set of values fetch_stockx_data can return for one lookup.  The
\* st.cache_data wrapper is not modelled: a cached call makes no request
\* and returns the value of the earlier call with the same arguments.
fetch_stockx_data(resp, uk_size) ==
    IF resp.raises = "search" THEN {None}
    ELSE IF resp.search_status # 200 THEN {None}
    ELSE IF resp.products = 0 THEN {None}
    ELSE IF resp.raises = "market" THEN {None}
    ELSE IF resp.market_status # 200 THEN {None}
    ELSE IF resp.raises = "sales" THEN {None}
    ELSE IF resp.sales_status # 200 THEN {None}
    ELSE FetchResult(SalesIn(resp.data, uk_size))

-----------------------------------------------------------------------------
(* ADD NEW ENTRY: the pricing arithmetic of the button handler *)

\* A variant of RoiTarget that closes the gap at 5 days (est_days <= 5).
RoiTargetNoGap(est_days) ==
    IF est_days.num <= 5 * est_days.den THEN 30
    ELSE IF 6 * est_days.den <= est_days.num /\ est_days.num <= 25 * est_days.den
         THEN 35
         ELSE 40

\* roi_target in percent, from est_days = [num, den].
RoiTarget(est_days) ==
    IF est_days.num < 5 * est_days.den THEN 30
    ELSE IF 6 * est_days.den <= est_days.num /\ est_days.num <= 25 * est_days.den
         THEN 35
         ELSE 40

\* One rounded payout for each distinct price of the list.
NetChoices(prices) ==
    { f \in [prices -> UNION {calculate_net(p) : p \in prices}] :
        \A p \in prices : f[p] \in calculate_net(p) }

RECURSIVE SumNet(_, _)
SumNet(s, netOf) ==
    IF s = <<>> THEN 0 ELSE netOf[Head(s)] + SumNet(Tail(s), netOf)

\* avg_net: the payouts of sales_list summed, divided by sales_120d.
AvgNet(data, netOf) ==
    IF data.sales_120d > 0
    THEN [num |-> SumNet(data.sales_list, netOf), den |-> data.sales_120d]
    ELSE [num |-> 0, den |-> 1]

EstDays(n) ==
    IF n > 0 THEN [num |-> VelocityDays, den |-> n]
    ELSE [num |-> NoSalesDays, den |-> 1]

\* A variant of RecPrice without the `if avg_net > 0` guard.
RecPriceUnguarded(avg_net, roi_target) ==
    RoundSet(100 * avg_net.num, avg_net.den * (100 + roi_target))

RecPrice(avg_net, roi_target) ==
    IF avg_net.num > 0
    THEN RoundSet(100 * avg_net.num, avg_net.den * (100 + roi_target))
    ELSE {0}

RoiPct(avg_net, listed_price) ==
    IF listed_price > 0
    THEN RoundSet(1000 * (avg_net.num - avg_net.den * listed_price),
                  avg_net.den * listed_price)
    ELSE {0}

\* The handler's local variables after the arithmetic, one record for each
\* way the roundings can fall.
Pricing(data, listed_price) ==
    UNION {
      LET avg_net == AvgNet(data, netOf)
          est_days == EstDays(data.sales_120d)
          roi_target == RoiTarget(est_days)
      IN  { [n |-> data.sales_120d,
             avg_sale |-> data.avg_sale,
             avg_net |-> avg_net,
             est_days |-> est_days,
             roi_target |-> roi_target,
             rec_price |-> rec,
             roi_pct |-> roi,
             avg_payout |-> pay,
             est_days_shown |-> shown]
            : rec \in RecPrice(avg_net, roi_target),
              roi \in RoiPct(avg_net, listed_price),
              pay \in RoundSet(avg_net.num, avg_net.den),
              shown \in RoundSet(10 * est_days.num, est_days.den) }
      : netOf \in NetChoices(Range(data.sales_list)) }

\* new_row.  Brand, Model, Colorway, Priority, Highest Bid and Lowest Ask
\* are copied from the inputs and left out.
NewRow(sku, size, listed_price, c) ==
    [sku |-> sku, size |-> size, listed_price |-> listed_price,
     sales_120d |-> c.n, avg_sale |-> c.avg_sale, avg_payout |-> c.avg_payout,
     roi_pct |-> c.roi_pct, rec_price |-> c.rec_price,
     est_days |-> c.est_days_shown]

NoCalc == [n |-> -1]

\* The body of `if st.button("Fetch from StockX + Add")`.  The api_key test
\* of the first condition is always true here: the script stops at start-up
\* without a key.
AddEntry(sku, size, platform, listed_price, resp) ==
    IF sku # "" /\ size # ""
    THEN \E data \in fetch_stockx_data(resp, size) :
           IF data # None
           THEN \E c \in Pricing(data, listed_price) :
                  /\ tables' = [tables EXCEPT ![platform] =
                                  Append(@, NewRow(sku, size, listed_price, c))]
                  /\ msg' = "Added"
                  /\ last' = [op |-> "add", sku |-> sku, size |-> size,
                              platform |-> platform, listed_price |-> listed_price,
                              resp |-> resp, data |-> data, calc |-> c]
           ELSE /\ msg' = "Could not fetch from StockX"
                /\ last' = [op |-> "add", sku |-> sku, size |-> size,
                            platform |-> platform, listed_price |-> listed_price,
                            resp |-> resp, data |-> data, calc |-> NoCalc]
                /\ UNCHANGED tables
    ELSE /\ msg' = "Fill SKU, Size"
         /\ last' = [op |-> "add", sku |-> sku, size |-> size,
                     platform |-> platform, listed_price |-> listed_price,
                     resp |-> resp, data |-> None, calc |-> NoCalc]
         /\ UNCHANGED tables

-----------------------------------------------------------------------------
(* SESSION STATE TABLES *)

platforms == <<"Vinted", "eBay", "Other/Retail">>
Platforms == Range(platforms)

EmptyTables == [p \in Platforms |-> <<>>]

Idle == [op |-> "none"]

AppInit ==
    /\ tables = EmptyTables
    /\ msg = ""
    /\ last = Idle

NoNet == [set |-> FALSE, v |-> 0]

NetIdle == price = 0 /\ net = NoNet
ParseIdle ==
    /\ lines = <<>>
    /\ idx = 1
    /\ pstate = "done"
    /\ pdate = 0
    /\ sales = <<>>

-----------------------------------------------------------------------------
(* Inputs of the pricing evaluations *)

Sale(kind, day, size, akind, v) ==
    [createdAt |-> [kind |-> kind, day |-> day], size |-> size,
     amount |-> [kind |-> akind, v |-> v]]

PricePoints == {500, 876, 877, 5600, 5700, 10000, 10050}

SaleItems ==
    {Sale("naive", Now - 1, "UK 9", "num", p) : p \in PricePoints}
    \cup {Sale("naive", Now - WindowDays, "UK 9", "num", 12000),
          Sale("naive", Now - WindowDays - 1, "UK 9", "num", 13000),
          Sale("naive", Now - WindowDays - 10, "UK 9", "num", 13000),
          Sale("aware", Now - 1, "UK 9", "num", 14000),
          Sale("absent", 0, "UK 9", "num", 15000),
          Sale("malformed", 0, "UK 9", "num", 15000),
          Sale("naive", Now - 1, "UK 10", "num", 16000),
          Sale("naive", Now - 1, "9", "num", 16000),
          Sale("naive", Now - 1, "UK 9", "num", 0),
          Sale("naive", Now - 1, "UK 9", "text", 0)}

TailCounts == {0, 1, 5}

\* c1 copies of item a followed by c2 copies of item b.
Runs(a, c1, b, c2) == [k \in 1..(c1 + c2) |-> IF k <= c1 THEN a ELSE b]

SaleLists ==
    { Runs(a, c1, b, c2) :
        a \in SaleItems, c1 \in 0..MaxCount, b \in SaleItems, c2 \in TailCounts }

Response(search, products, market, sales_status, raises, data) ==
    [search_status |-> search, products |-> products, market_status |-> market,
     sales_status |-> sales_status, raises |-> raises, data |-> data]

OkResponse(data) == Response(200, 1, 200, 200, "none", data)

ListedPrices == {0, 5000}

\* One evaluation of the handler on a fresh session.
Evaluate ==
    /\ tables = EmptyTables
    /\ \E data \in SaleLists, listed_price \in ListedPrices :
         AddEntry("DZ5485", "9", "Vinted", listed_price, OkResponse(data))
    /\ UNCHANGED <<netVars, parseVars>>

PricingInit == AppInit /\ NetIdle /\ ParseIdle
PricingNext == Evaluate
PricingSpec == PricingInit /\ [][PricingNext]_vars

-----------------------------------------------------------------------------
(* Properties of one pricing evaluation (PricingSpec) *)

Added == last.op = "add" /\ msg = "Added"

\* The sale records the lookup was given, and the row the handler appended.
GivenSales == last.resp.data
AddedRow == tables[last.platform][Len(tables[last.platform])]

\* The amounts the lookup counted in sales_120d.
CountedSales == SalesIn(GivenSales, last.size)

\* |x - num/den| <= 1/2: x is num/den rounded to the nearest integer.
IsRounded(x, num, den) ==
    /\ 2 * (x * den - num) <= den
    /\ 2 * (num - x * den) <= den

\* C2: for n >= 1 in-window prices the average net payout of the summary is
\* the mean of net(p) over exactly the n prices counted in '#Sales 120D':
\* the prices summed and the divisor n are the same list.
C2_AvgNetOverCountedPrices ==
    (Added /\ last.calc.n >= 1) =>
        /\ last.calc.n = Len(CountedSales)
        /\ \E netOf \in NetChoices(Range(CountedSales)) :
             /\ last.calc.avg_net.num = SumNet(CountedSales, netOf)
             /\ last.calc.avg_net.den = Len(CountedSales)
        /\ AddedRow.sales_120d = Len(CountedSales)

\* C3: for n >= 1, estimated days is 120 / n and the target ROI is 0.30
\* below 5 days (n >= 25), 0.35 from 6 to 25 days (5 <= n <= 20) and 0.40
\* otherwise: exactly 5 days (n = 24), between 5 and 6 days (n = 21..23)
\* and above 25 days (n <= 4); on whole days, target_roi(4) = 0.30,
\* (5) = 0.40, (6) = 0.35, (25) = 0.35, (26) = 0.40.
C3_TargetRoiTiers ==
    /\ (Added /\ last.calc.n >= 1) =>
         /\ last.calc.est_days.num * last.calc.n = 120 * last.calc.est_days.den
         /\ last.calc.roi_target =
              (IF last.calc.n >= 25 THEN 30
               ELSE IF last.calc.n >= 5 /\ last.calc.n <= 20 THEN 35
               ELSE 40)
    /\ Added =>
         /\ RoiTarget([num |-> 4, den |-> 1]) = 30
         /\ RoiTarget([num |-> 5, den |-> 1]) = 40
         /\ RoiTarget([num |-> 6, den |-> 1]) = 35
         /\ RoiTarget([num |-> 25, den |-> 1]) = 35
         /\ RoiTarget([num |-> 26, den |-> 1]) = 40
         /\ RoiTarget([num |-> 11, den |-> 2]) = 40

\* C3 witness: 24 sales, exactly 5 days, priced with the 0.40 target.
C3_Witness ==
    Added /\ last.calc.n = 24 /\ last.calc.roi_target = 40

\* C5 (amended): the recommended price is avg_net / (1 + target_roi)
\* rounded to 2 decimals when avg_net is positive and 0 otherwise; the
\* price written to the row is never negative and, when avg_net is
\* positive, never exceeds the row's average net payout (avg_net rounded to
\* 2 decimals).
C5_RecommendedPrice ==
    Added =>
        /\ last.calc.avg_net.num > 0 =>
             IsRounded(last.calc.rec_price, 100 * last.calc.avg_net.num,
                       last.calc.avg_net.den * (100 + last.calc.roi_target))
        /\ last.calc.avg_net.num <= 0 => last.calc.rec_price = 0
        /\ AddedRow.rec_price = last.calc.rec_price
        /\ AddedRow.rec_price >= 0
        /\ last.calc.avg_net.num > 0 => AddedRow.rec_price <= AddedRow.avg_payout

\* C5 witness: a positive average net payout priced at the 0.35 target.
C5_Witness ==
    /\ Added
    /\ last.calc.avg_net.num > 0
    /\ last.calc.roi_target = 35
    /\ AddedRow.rec_price > 0
    /\ AddedRow.rec_price < AddedRow.avg_payout

\* C5 as claimed: the recommended price written to a row is never negative
\* and never exceeds the average net payout.
C5_NeverExceedsAvgNet ==
    Added =>
        /\ AddedRow.rec_price >= 0
        /\ AddedRow.rec_price * last.calc.avg_net.den <= last.calc.avg_net.num

\* C6: with listed price > 0 the ROI percentage is
\* (avg_net - listed) / listed * 100 rounded to 1 decimal; with listed
\* price 0 it is a placeholder marking it undefined, not a number.
C6_RoiPctOrPlaceholder ==
    Added =>
        /\ last.listed_price > 0 =>
             IsRounded(AddedRow.roi_pct,
                       1000 * (last.calc.avg_net.num
                               - last.calc.avg_net.den * last.listed_price),
                       last.calc.avg_net.den * last.listed_price)
        /\ last.listed_price = 0 => AddedRow.roi_pct \notin Int

\* The amounts the claim C8 puts in the list: the timestamp is ISO-8601
\* with or without a UTC designator and on or after now - 120 days, the
\* size is 'UK <requested size>', the amount is > 0.
ClaimedKept(item, uk_size) ==
    /\ item.createdAt.kind \in {"naive", "aware"}
    /\ item.createdAt.day >= Now - 120
    /\ item.size = UkLabel(uk_size)
    /\ item.amount.kind = "num"
    /\ item.amount.v > 0

RECURSIVE ClaimedSales(_, _)
ClaimedSales(items, uk_size) ==
    IF items = <<>> THEN <<>>
    ELSE (IF ClaimedKept(Head(items), uk_size)
          THEN <<Head(items).amount.v>> ELSE <<>>)
         \o ClaimedSales(Tail(items), uk_size)

\* C8: the returned sales list holds, in order of appearance, exactly the
\* amounts of the records that are in the window, of the requested size and
\* positive, and sales_120d is their count.
C8_LookupKeepsWindowSales ==
    Added =>
        /\ last.data.sales_list = ClaimedSales(GivenSales, last.size)
        /\ last.data.sales_120d = Len(ClaimedSales(GivenSales, last.size))

-----------------------------------------------------------------------------
(* BACKUP / RESTORE: the upload handler *)

\* An uploaded file: kind "unparseable" (json.load raises), "number"
\* (valid JSON that is no container: `p in data` raises TypeError) or
\* "object" (a JSON object); entries maps the platform names the object
\* holds to [kind |-> "records", rows |-> ...] (a list of records) or to
\* [kind |-> "scalar"] (a value pd.DataFrame refuses, raising ValueError).

\* The loop `for p in platforms` from position k on: the tables it leaves
\* and whether it ran to its end.  An exception leaves the loop at once,
\* keeping the assignments already made.
RECURSIVE RestoreLoop(_, _, _)
RestoreLoop(k, entries, tbl) ==
    IF k > Len(platforms) THEN [tables |-> tbl, ok |-> TRUE]
    ELSE IF platforms[k] \in DOMAIN entries
         THEN IF entries[platforms[k]].kind = "records"
              THEN RestoreLoop(k + 1, entries,
                               [tbl EXCEPT ![platforms[k]] = entries[platforms[k]].rows])
              ELSE [tables |-> tbl, ok |-> FALSE]
         ELSE RestoreLoop(k + 1, entries, tbl)

RestoreResult(file, tbl) ==
    IF file.kind = "unparseable" THEN [tables |-> tbl, ok |-> FALSE]
    ELSE IF file.kind = "number" THEN [tables |-> tbl, ok |-> FALSE]
    ELSE RestoreLoop(1, file.entries, tbl)

Restore(file) ==
    LET r == RestoreResult(file, tables)
    IN  /\ tables' = r.tables
        /\ msg' = IF r.ok THEN "Backup restored!" ELSE "Invalid backup file"
        /\ last' = [op |-> "restore", file |-> file]

-----------------------------------------------------------------------------
(* The session: add-entry and restore in any order (Spec) *)

RECURSIVE TotalRows(_, _)
TotalRows(tbl, k) ==
    IF k > Len(platforms) THEN 0
    ELSE Len(tbl[platforms[k]]) + TotalRows(tbl, k + 1)

Skus == {"", "DZ5485"}
Sizes == {"", "9"}

RecentSale == Sale("naive", Now - 1, "UK 9", "num", 10000)
OldSale == Sale("naive", Now - WindowDays - 10, "UK 9", "num", 13000)

FailedResponses ==
    {Response(500, 1, 200, 200, "none", <<RecentSale>>),
     Response(200, 0, 200, 200, "none", <<RecentSale>>),
     Response(200, 1, 404, 200, "none", <<RecentSale>>),
     Response(200, 1, 200, 429, "none", <<RecentSale>>),
     Response(200, 1, 200, 200, "search", <<RecentSale>>),
     Response(200, 1, 200, 200, "market", <<RecentSale>>),
     Response(200, 1, 200, 200, "sales", <<RecentSale>>)}

SessionResponses ==
    FailedResponses
    \cup {OkResponse(<<>>), OkResponse(<<RecentSale>>), OkResponse(<<OldSale>>)}

\* A row of an earlier backup.
BackupRow ==
    [sku |-> "CW2288", size |-> "8", listed_price |-> 6000, sales_120d |-> 3,
     avg_sale |-> 9000, avg_payout |-> 7610, roi_pct |-> 268,
     rec_price |-> 5436, est_days |-> 400]

BackupEntries ==
    {[kind |-> "records", rows |-> <<BackupRow>>], [kind |-> "scalar"]}

BackupFiles ==
    {[kind |-> "unparseable", entries |-> <<>>],
     [kind |-> "number", entries |-> <<>>]}
    \cup {[kind |-> "object", entries |-> e] :
            e \in UNION {[D -> BackupEntries] : D \in SUBSET Platforms}}

\* The session is followed while the tables hold fewer than MaxRows rows.
Add ==
    /\ TotalRows(tables, 1) < MaxRows
    /\ \E sku \in Skus, size \in Sizes, platform \in Platforms,
          listed_price \in ListedPrices, resp \in SessionResponses :
         AddEntry(sku, size, platform, listed_price, resp)
    /\ UNCHANGED <<netVars, parseVars>>

Upload ==
    /\ \E file \in BackupFiles : Restore(file)
    /\ UNCHANGED <<netVars, parseVars>>

Init == AppInit /\ NetIdle /\ ParseIdle
Next == Add \/ Upload
Spec == Init /\ [][Next]_vars

-----------------------------------------------------------------------------
(* Properties of the session (Spec) *)

\* C1: add-entry produces a row only when at least one sale is in the
\* 120-day window; with n = 0 it is rejected and no table changes, so no
\* table ever holds a row whose '#Sales 120D' is 0.
C1_NoRowWithoutSales ==
    \A p \in Platforms : \A k \in 1..Len(tables[p]) :
        tables[p][k].sales_120d # 0

\* The lookup fails at one of its three steps.
LookupFails(resp) ==
    \/ resp.search_status # 200
    \/ resp.products = 0
    \/ resp.market_status # 200
    \/ resp.sales_status # 200
    \/ resp.raises # "none"

\* C7: when the lookup fails at any step, or SKU or size is empty, the
\* handler reports a message (could not fetch / fill in), computes no
\* pricing and leaves every platform table as it was.
C7_FailedLookupChangesNothing ==
    [][ (last'.op = "add"
         /\ (last'.sku = "" \/ last'.size = "" \/ LookupFails(last'.resp)))
        => /\ tables' = tables
           /\ last'.calc = NoCalc
           /\ msg' = IF last'.sku = "" \/ last'.size = ""
                     THEN "Fill SKU, Size"
                     ELSE "Could not fetch from StockX" ]_vars

\* C7 witness: a lookup whose market request failed, met with rows in a
\* table, was answered with "could not fetch".
C7_Witness ==
    /\ last.op = "add"
    /\ last.sku # "" /\ last.size # ""
    /\ last.resp.search_status = 200 /\ last.resp.products > 0
    /\ last.resp.market_status # 200
    /\ msg = "Could not fetch from StockX"
    /\ TotalRows(tables, 1) > 0

\* C10: restore is all-or-nothing: ending with 'Invalid backup file' it
\* leaves every table unchanged; ending with 'Backup restored!' it replaces
\* the table of each platform present in the file and keeps the others.
C10_RestoreAllOrNothing ==
    [][ last'.op = "restore"
        => /\ msg' = "Invalid backup file" => tables' = tables
           /\ msg' = "Backup restored!" =>
                \A p \in Platforms :
                    tables'[p] = IF p \in DOMAIN last'.file.entries
                                 THEN last'.file.entries[p].rows
                                 ELSE tables[p] ]_vars

-----------------------------------------------------------------------------
(* The payout formula on every whole-pence price (NetSpec) *)

Calculate ==
    /\ ~net.set
    /\ \E v \in calculate_net(price) : net' = [set |-> TRUE, v |-> v]
    /\ UNCHANGED <<price, appVars, parseVars>>

NetInit == AppInit /\ ParseIdle /\ price \in 0..MaxPence /\ net = NoNet
NetNext == Calculate
NetSpec == NetInit /\ [][NetNext]_vars

\* C4: calculate_net(p) is p - 4.50 - 0.03 p - 4.00 below 57 and
\* p - 0.08 p - 0.03 p - 4.00 from 57 on, rounded to 2 decimals;
\* net(56) = 45.82 and net(57) = 46.73.
C4_TieredNet ==
    net.set =>
        /\ price < 5700 =>
             IsRounded(net.v, 100 * price - 45000 - 3 * price - 40000, 100)
        /\ price >= 5700 =>
             IsRounded(net.v, 100 * price - 8 * price - 3 * price - 40000, 100)
        /\ price = 5600 => net.v = 4582
        /\ price = 5700 => net.v = 4673

\* C4 witness: the threshold price 57.00 was paid out at 46.73.
C4_Witness == net.set /\ price = 5700 /\ net.v = 4673

-----------------------------------------------------------------------------
(* SALES-HISTORY PARSER (specification section 4.1): parse_sales *)

\* A line after classification: kind "date" (matches the MM/DD/YY pattern
\* and parses; date is the day it names), "amount" (holds a currency
\* amount, thousands separators stripped), "other" (anything else, a
\* malformed date included).
Line(kind, date, amount) == [kind |-> kind, date |-> date, amount |-> amount]

ParseWindowDays == 120

\* A date that lies after `now` is read as 100 years earlier.
ParsedDate(line) ==
    IF line.date > Now THEN line.date - 36525 ELSE line.date

\* A variant of ParseStep in which a date line met while an amount is
\* awaited replaces the waiting date.
ParseStepLatestDate(st, line) ==
    IF st.pstate = "seek_date"
    THEN IF line.kind = "date"
         THEN [pstate |-> "seek_amount", pdate |-> ParsedDate(line), sales |-> st.sales]
         ELSE st
    ELSE IF line.kind = "amount"
         THEN [pstate |-> "seek_date", pdate |-> 0,
               sales |-> IF st.pdate >= Now - ParseWindowDays
                         THEN Append(st.sales, line.amount) ELSE st.sales]
         ELSE IF line.kind = "date"
              THEN [pstate |-> "seek_amount", pdate |-> ParsedDate(line), sales |-> st.sales]
              ELSE st

\* The scan's treatment of one line.  Seeking a date, a date line is parsed
\* and kept and any other line is skipped; seeking the amount of that date,
\* the first line holding an amount ends the search, its amount is
\* recorded if the date is in the window, and every other line is skipped.
ParseStep(st, line) ==
    IF st.pstate = "seek_date"
    THEN IF line.kind = "date"
         THEN [pstate |-> "seek_amount", pdate |-> ParsedDate(line), sales |-> st.sales]
         ELSE st
    ELSE IF line.kind = "amount"
         THEN [pstate |-> "seek_date", pdate |-> 0,
               sales |-> IF st.pdate >= Now - ParseWindowDays
                         THEN Append(st.sales, line.amount) ELSE st.sales]
         ELSE st

ScanLine ==
    /\ pstate # "done"
    /\ idx <= Len(lines)
    /\ LET st == ParseStep([pstate |-> pstate, pdate |-> pdate, sales |-> sales],
                           lines[idx])
       IN  /\ pstate' = st.pstate
           /\ pdate' = st.pdate
           /\ sales' = st.sales
    /\ idx' = idx + 1
    /\ UNCHANGED <<lines, appVars, netVars>>

\* The text ends: a date still waiting for its amount is dropped.
EndOfText ==
    /\ pstate # "done"
    /\ idx > Len(lines)
    /\ pstate' = "done"
    /\ pdate' = 0
    /\ UNCHANGED <<lines, idx, sales, appVars, netVars>>

PastedLines ==
    {Line("date", Now - 1, 0), Line("date", Now - ParseWindowDays - 1, 0),
     Line("date", Now + 3, 0), Line("amount", 0, 12000),
     Line("amount", 0, 9500), Line("other", 0, 0)}

PastedTexts == UNION {[1..m -> PastedLines] : m \in 0..MaxLines}

ParseInit ==
    /\ AppInit /\ NetIdle
    /\ lines \in PastedTexts
    /\ idx = 1
    /\ pstate = "seek_date"
    /\ pdate = 0
    /\ sales = <<>>
ParseNext == ScanLine \/ EndOfText
ParseSpec == ParseInit /\ [][ParseNext]_vars

\* The first index >= k of a line of the given kind, 0 if there is none.
FirstFrom(text, k, kind) ==
    IF \E m \in k..Len(text) : text[m].kind = kind
    THEN CHOOSE m \in k..Len(text) :
           /\ text[m].kind = kind
           /\ \A m2 \in k..(m - 1) : text[m2].kind # kind
    ELSE 0

\* The pairing the claim C9 describes, from line k on: the first date line
\* is paired with the first amount line after it, and the pairing starts
\* again just after that amount line.
RECURSIVE PairedSales(_, _)
PairedSales(text, k) ==
    LET d == FirstFrom(text, k, "date")
        a == IF d = 0 THEN 0 ELSE FirstFrom(text, d + 1, "amount")
    IN  IF d = 0 \/ a = 0 THEN <<>>
        ELSE (IF ParsedDate(text[d]) >= Now - 120
              THEN <<text[a].amount>> ELSE <<>>)
             \o PairedSales(text, a + 1)

\* A date of the text read so far still waits for its amount.
DateWaits(text) ==
    \E d \in 1..Len(text) :
        /\ text[d].kind = "date"
        /\ \A m \in (d + 1)..Len(text) : text[m].kind # "amount"

\* C9: parse_sales is a two-state scan: a date line found while seeking a
\* date is paired with the first later amount line, the lines in between
\* (other date lines too) are ignored, the scan resumes after the amount
\* line, amounts met while seeking a date are ignored, a date without a
\* later amount yields nothing, and the result is the in-order list of the
\* paired amounts whose date is >= now - window_days.
C9_TwoStateScan ==
    /\ pstate \in {"seek_date", "seek_amount", "done"}
    /\ pstate = "done" => sales = PairedSales(lines, 1)
    /\ (pstate # "done" /\ idx <= Len(lines) + 1) =>
         /\ sales = PairedSales(SubSeq(lines, 1, idx - 1), 1)
         /\ (pstate = "seek_amount") = DateWaits(SubSeq(lines, 1, idx - 1))

\* C9 witness: an in-window date, then an old date, then an amount: the
\* amount went to the first date and was retained.
C9_Witness ==
    /\ pstate = "done"
    /\ Len(lines) >= 3
    /\ lines[1].kind = "date" /\ lines[1].date = Now - 1
    /\ lines[2].kind = "date" /\ lines[2].date = Now - ParseWindowDays - 1
    /\ lines[3].kind = "amount"
    /\ sales # <<>> /\ sales[1] = lines[3].amount

=============================================================================
